---- MODULE Spec2Model ----
(***************************************************************************)
(* A model of image_extractor.py: the slide-deck to transparent-PNG        *)
(* exporter.  Text is modelled as sequences of one-character strings, so   *)
(* that formatting, parsing and sanitizing are computed character by       *)
(* character.  Every function of the script has a specification of its own *)
(* that draws the function's inputs in Init and applies the function in an *)
(* action; the run of pptx_to_png_transparent is a state machine whose     *)
(* position is pc.  The run's options (remove_title, autocrop,             *)
(* scale_percent) select image steps and their announcements only; they    *)
(* are not part of the run's state, and the image steps have               *)
(* specifications of their own.                                            *)
(***************************************************************************)
EXTENDS Integers, Sequences, FiniteSets, TLC

VARIABLES
    pc,             \* position of the program that is running
    text,           \* sanitize_filename: its argument
    safe_title,     \* sanitize_filename(text)
    safe_again,     \* sanitize_filename(safe_title)
    deck,           \* the slides of the presentation file
    slides_info,    \* pptx_to_png_transparent: (title, bbox) of every slide
    printed,        \* the messages printed so far, in order
    exception,      \* the exception that left pptx_to_png_transparent, or "none"
    out_dir,        \* the names of the files in the output directory
    png_files,      \* use_libreoffice_method: number of rasterized pages
    idx,            \* use_libreoffice_method: slides processed by the loop
    name_counts,    \* use_libreoffice_method: sanitized title -> occurrences
    output_names,   \* the output_name given to each processed slide, in order
    files_created,  \* use_libreoffice_method: statistics
    files_overwritten,
    title_slide,    \* the slide handed to extract_slide_title_and_bbox
    title_bbox,     \* the bounding box it returned
    img_size,       \* remove_title_from_image: img.size
    title_margin,   \* remove_title_from_image: margin
    fill_rect,      \* the rectangle handed to draw.rectangle
    crop_img,       \* autocrop_image: img
    crop_margin,    \* autocrop_image: margin
    cropped,        \* the image autocrop_image returned
    resize_size,    \* resize_image: (img.width, img.height)
    scale_percent,  \* resize_image: scale_percent
    resized,        \* the size of the image resize_image returned
    img_mode,       \* the mode of the image loaded for a slide
    img_data,       \* its pixels as loaded
    data,           \* img.getdata() after the conversion to RGBA
    new_data,       \* the pixels put back with img.putdata
    sys_argv,       \* __main__: sys.argv
    call            \* the arguments __main__ calls pptx_to_png_transparent with

sanVars == <<text, safe_title, safe_again>>
runVars == <<deck, slides_info, printed, exception, out_dir, png_files, idx,
             name_counts, output_names, files_created, files_overwritten>>
titleVars == <<title_slide, title_bbox, img_size, title_margin, fill_rect>>
cropVars == <<crop_img, crop_margin, cropped>>
resizeVars == <<resize_size, scale_percent, resized>>
filterVars == <<img_mode, img_data, data, new_data>>
mainVars == <<sys_argv, call>>
notRunVars == <<sanVars, titleVars, cropVars, resizeVars, filterVars, mainVars>>
vars == <<pc, runVars, notRunVars>>

(***************************************************************************)
(* Text helpers (Python str methods)                                       *)
(***************************************************************************)

\* The characters str.split() and str.strip() treat as whitespace.
Whitespace == {" ", "\t", "\n"}

\* text.replace(char, '')
Replace(t, char) == SelectSeq(t, LAMBDA c : c # char)

\* The k-th smallest element of a set of numbers.
Nth(S, k) == CHOOSE i \in S : Cardinality({s \in S : s < i}) = k - 1

\* text.split(): the maximal runs of non-whitespace characters, in order
Split(t) ==
    LET starts == {i \in 1..Len(t) :
                      t[i] \notin Whitespace /\ (i = 1 \/ t[i - 1] \in Whitespace)}
        ends   == {i \in 1..Len(t) :
                      t[i] \notin Whitespace /\ (i = Len(t) \/ t[i + 1] \in Whitespace)}
    IN  [k \in 1..Cardinality(starts) |-> SubSeq(t, Nth(starts, k), Nth(ends, k))]

RECURSIVE JoinFrom(_, _, _)
JoinFrom(sep, words, i) ==
    IF i > Len(words) THEN <<>>
    ELSE IF i = Len(words) THEN words[i]
    ELSE words[i] \o sep \o JoinFrom(sep, words, i + 1)

\* sep.join(words)
Join(sep, words) == JoinFrom(sep, words, 1)

\* text.strip(): without its leading and its trailing whitespace
Strip(t) ==
    LET lead  == CHOOSE k \in 0..Len(t) :
                    /\ \A j \in 1..k : t[j] \in Whitespace
                    /\ k = Len(t) \/ t[k + 1] \notin Whitespace
        trail == CHOOSE k \in 0..Len(t) :
                    /\ \A j \in 1..k : t[Len(t) + 1 - j] \in Whitespace
                    /\ k = Len(t) \/ t[Len(t) - k] \notin Whitespace
    IN  IF lead = Len(t) THEN <<>> ELSE SubSeq(t, lead + 1, Len(t) - trail)

(***************************************************************************)
(* sanitize_filename                                                       *)
(***************************************************************************)

invalid_chars == <<"<", ">", ":", "\"", "/", "\\", "|", "?", "*">>

\* The length sanitize_filename truncates to.
MaxFilenameLen == 100

RECURSIVE RemoveChars(_, _, _)
\* for char in invalid_chars: text = text.replace(char, '')
RemoveChars(t, chars, i) ==
    IF i > Len(chars) THEN t
    ELSE RemoveChars(Replace(t, chars[i]), chars, i + 1)

\* The sanitizer with truncation as its last step: no strip after it.
sanitize_filename_no_final_strip(t) ==
    LET cleaned   == RemoveChars(t, invalid_chars, 1)
        collapsed == Join(<<" ">>, Split(cleaned))
    IN  IF Len(collapsed) > MaxFilenameLen
        THEN SubSeq(collapsed, 1, MaxFilenameLen)
        ELSE collapsed

sanitize_filename(t) ==
    LET cleaned   == RemoveChars(t, invalid_chars, 1)
        collapsed == Join(<<" ">>, Split(cleaned))
        truncated == IF Len(collapsed) > MaxFilenameLen
                     THEN SubSeq(collapsed, 1, MaxFilenameLen)
                     ELSE collapsed
    IN  Strip(truncated)

\* ---- inputs of the sanitizer ----

\* Longest prefix and suffix drawn around the filler of a sanitizer input.
MaxAffix == 2

SanAlphabet == {"a", " ", "\t", "/"}

RECURSIVE StringsUpTo(_, _)
\* All sequences over alphabet of length at most n.
StringsUpTo(alphabet, n) ==
    IF n = 0 THEN {<<>>}
    ELSE LET shorter == StringsUpTo(alphabet, n - 1)
         IN  shorter \cup {Append(s, c) : s \in shorter, c \in alphabet}

Filler(n) == [i \in 1..n |-> "a"]

\* Filler lengths: none, and those that put the affixes around the limit.
FillerLens == {0} \cup ((MaxFilenameLen - 3)..MaxFilenameLen)

SanInputs ==
    {p \o Filler(n) \o s : p \in StringsUpTo(SanAlphabet, MaxAffix),
                           n \in FillerLens,
                           s \in StringsUpTo(SanAlphabet, MaxAffix)}

RunIdle ==
    /\ deck = <<>> /\ slides_info = <<>> /\ printed = <<>>
    /\ exception = "none" /\ out_dir = {} /\ png_files = 0 /\ idx = 0
    /\ name_counts = <<>> /\ output_names = <<>>
    /\ files_created = 0 /\ files_overwritten = 0

TitleIdle ==
    /\ title_slide = <<>> /\ title_bbox = <<>> /\ img_size = <<>> /\ title_margin = 0
    /\ fill_rect = <<>>

CropIdle == crop_img = <<>> /\ crop_margin = 0 /\ cropped = <<>>

ResizeIdle == resize_size = <<>> /\ scale_percent = 0 /\ resized = <<>>

FilterIdle == img_mode = "" /\ img_data = <<>> /\ data = <<>> /\ new_data = <<>>

MainIdle == sys_argv = <<>> /\ call = <<>>

SanIdle == text = <<>> /\ safe_title = <<>> /\ safe_again = <<>>

InitSanitize ==
    /\ pc = "sanitize"
    /\ text \in SanInputs
    /\ safe_title = <<>>
    /\ safe_again = <<>>
    /\ RunIdle
    /\ TitleIdle
    /\ CropIdle
    /\ ResizeIdle
    /\ FilterIdle
    /\ MainIdle

\* safe_title = sanitize_filename(title), and the sanitizer applied to it again
Sanitize ==
    /\ pc = "sanitize"
    /\ safe_title' = sanitize_filename(text)
    /\ safe_again' = sanitize_filename(safe_title')
    /\ pc' = "sanitized"
    /\ UNCHANGED <<text, runVars, titleVars, cropVars, resizeVars, filterVars, mainVars>>

NextSanitize == Sanitize

SpecSanitize == InitSanitize /\ [][NextSanitize]_vars

\* ---- C6 ----

HasWhitespaceRun(t) ==
    \E i \in 1..(Len(t) - 1) : t[i] \in Whitespace /\ t[i + 1] \in Whitespace

\* C6: sanitize_filename is idempotent, and its result holds none of the
\* invalid characters, has no leading or trailing whitespace, no run of two
\* or more whitespace characters, and at most 100 characters.
SanitizeIdempotentAndClean ==
    pc = "sanitized" =>
        /\ safe_again = safe_title
        /\ \A i \in 1..Len(safe_title) :
               \A k \in 1..Len(invalid_chars) : safe_title[i] # invalid_chars[k]
        /\ safe_title # <<>> =>
               /\ safe_title[1] \notin Whitespace
               /\ safe_title[Len(safe_title)] \notin Whitespace
        /\ ~HasWhitespaceRun(safe_title)
        /\ Len(safe_title) <= MaxFilenameLen

\* A text that loses characters to the cleaning, is still over the limit
\* after it, and whose cut at 100 characters falls right after a space.
SanitizeTruncatesAtSpace ==
    /\ pc = "sanitized"
    /\ LET collapsed == Join(<<" ">>, Split(RemoveChars(text, invalid_chars, 1)))
       IN  /\ Len(collapsed) < Len(text)
           /\ Len(collapsed) > 100
           /\ collapsed[100] = " "
    /\ Len(safe_title) = 99

(***************************************************************************)
(* extract_slide_title_and_bbox                                            *)
(***************************************************************************)

\* A title or a bounding box that is None, and one that is not.
NoneValue == [is_none |-> TRUE, value |-> <<>>]
Some(v) == [is_none |-> FALSE, value |-> v]

\* A shape of a slide: its text (when it has a text attribute) and its
\* position and size in EMU.
Shape(t, l, tp, w, h) ==
    [has_text |-> TRUE, text |-> t, left |-> l, top |-> tp, width |-> w, height |-> h]

\* prs.slide_width and prs.slide_height, in EMU scaled down.
SlideSize == <<4, 3>>

\* The quotient n / d, kept exact as a pair.
Frac(n, d) == <<n, d>>

\* (left / slide_width, top / slide_height, width / slide_width, height / slide_height)
RelativeBBox(shape, slide_width, slide_height) ==
    <<Frac(shape.left, slide_width), Frac(shape.top, slide_height),
      Frac(shape.width, slide_width), Frac(shape.height, slide_height)>>

\* A slide: its title placeholder (slide.shapes.title, when has_title) and
\* its shapes in order.  Returns the pair (title, bbox).
extract_slide_title_and_bbox(slide, slide_width, slide_height) ==
    IF slide.has_title
    THEN [title |-> Some(slide.title.text),
          bbox  |-> Some(RelativeBBox(slide.title, slide_width, slide_height))]
    ELSE LET withText == {i \in 1..Len(slide.shapes) :
                            /\ slide.shapes[i].has_text
                            /\ Strip(slide.shapes[i].text) # <<>>}
         IN  IF withText = {}
             THEN [title |-> NoneValue, bbox |-> NoneValue]
             ELSE LET first == CHOOSE i \in withText : \A j \in withText : i <= j
                  IN  [title |-> Some(Strip(slide.shapes[first].text)),
                       bbox  |-> Some(RelativeBBox(slide.shapes[first],
                                                   slide_width, slide_height))]

\* Python's truth value of a title: neither None nor the empty string.
Truthy(title) == ~title.is_none /\ title.value # <<>>

(***************************************************************************)
(* Output names                                                            *)
(***************************************************************************)

Digits == <<"0", "1", "2", "3", "4", "5", "6", "7", "8", "9">>

RECURSIVE IntToStr(_)
\* str(n) for n >= 0, as an f-string formats it
IntToStr(n) ==
    IF n < 10 THEN <<Digits[n + 1]>>
    ELSE IntToStr(n \div 10) \o <<Digits[(n % 10) + 1]>>

PngExt == <<".", "p", "n", "g">>
SlidePrefix == <<"S", "l", "i", "d", "e", "_">>

\* counts with key set to n
SetCount(counts, key, n) ==
    [k \in DOMAIN counts \cup {key} |-> IF k = key THEN n ELSE counts[k]]

\* The naming where a repeated title takes the count before it is increased.
assign_output_name_stale_count(title, position, counts) ==
    IF Truthy(title)
    THEN LET safe == sanitize_filename(title.value)
         IN  IF safe \in DOMAIN counts
             THEN [name   |-> safe \o <<"_">> \o IntToStr(counts[safe]) \o PngExt,
                   counts |-> SetCount(counts, safe, counts[safe] + 1)]
             ELSE [name   |-> safe \o PngExt,
                   counts |-> SetCount(counts, safe, 1)]
    ELSE [name |-> SlidePrefix \o IntToStr(position) \o PngExt, counts |-> counts]

\* The output_name of the slide at 1-based position, and name_counts after it.
assign_output_name(title, position, counts) ==
    IF Truthy(title)
    THEN LET safe == sanitize_filename(title.value)
         IN  IF safe \in DOMAIN counts
             THEN [name   |-> safe \o <<"_">> \o IntToStr(counts[safe] + 1) \o PngExt,
                   counts |-> SetCount(counts, safe, counts[safe] + 1)]
             ELSE [name   |-> safe \o PngExt,
                   counts |-> SetCount(counts, safe, 1)]
    ELSE [name |-> SlidePrefix \o IntToStr(position) \o PngExt, counts |-> counts]

(***************************************************************************)
(* pptx_to_png_transparent and use_libreoffice_method                      *)
(***************************************************************************)

\* Most slides of a presentation.
MaxSlides == 3

TitleShape(t) == Shape(t, 0, 0, 4, 1)

RunTitleTexts == {<<>>, <<"A">>, <<"A", "_", "2">>, <<"?">>, <<" ", "A">>}

\* The slides a presentation is made of: with a title placeholder, with no
\* text at all, and with text boxes only.
RunSlides ==
    {[has_title |-> TRUE, title |-> TitleShape(t), shapes |-> <<>>] : t \in RunTitleTexts}
    \cup {[has_title |-> FALSE, title |-> TitleShape(<<>>), shapes |-> <<>>]}
    \cup {[has_title |-> FALSE, title |-> TitleShape(<<>>),
           shapes |-> <<Shape(<<" ">>, 0, 0, 1, 1), Shape(<<" ", "A", " ">>, 1, 1, 2, 1)>>]}

RECURSIVE SeqsUpTo(_, _)
\* All sequences of elements of S of length at most n.
SeqsUpTo(S, n) ==
    IF n = 0 THEN {<<>>}
    ELSE LET shorter == SeqsUpTo(S, n - 1)
         IN  shorter \cup {Append(q, e) : q \in shorter, e \in S}

Min(a, b) == IF a <= b THEN a ELSE b

\* The except clause of pptx_to_png_transparent: report and return.
CaughtAtTop ==
    /\ printed' = printed \o <<"erreur", "traceback">>
    /\ pc' = "returned"

InitRun ==
    /\ pc = "check_input"
    /\ deck \in SeqsUpTo(RunSlides, MaxSlides)
    /\ slides_info = <<>>
    /\ printed = <<>>
    /\ exception = "none"
    /\ out_dir = {}
    /\ png_files = 0
    /\ idx = 0
    /\ name_counts = <<>>
    /\ output_names = <<>>
    /\ files_created = 0
    /\ files_overwritten = 0
    /\ SanIdle
    /\ TitleIdle
    /\ CropIdle
    /\ ResizeIdle
    /\ FilterIdle
    /\ MainIdle

\* if not os.path.exists(pptx_path): print, return
CheckInput ==
    /\ pc = "check_input"
    /\ \E exists \in BOOLEAN :
         IF exists
         THEN pc' = "makedirs" /\ UNCHANGED printed
         ELSE printed' = Append(printed, "fichier_non_trouve") /\ pc' = "returned"
    /\ UNCHANGED <<notRunVars, deck, slides_info, exception, out_dir, png_files, idx,
                   name_counts, output_names, files_created, files_overwritten>>

\* os.makedirs(output_dir, exist_ok=True) and os.listdir(output_dir), before
\* the try block: an OSError of either leaves the function.
MakeOutputDir ==
    /\ pc = "makedirs"
    /\ \E ok \in BOOLEAN :
         IF ok
         THEN /\ \E existing \in {{}, {<<"A">> \o PngExt}} :
                   /\ out_dir' = existing
                   /\ printed' = printed \o
                        (IF existing # {} THEN <<"dossier_existantes", "seront_ecrasees">>
                                          ELSE <<"dossier">>)
                        \o <<"chargement">>
              /\ pc' = "load"
              /\ UNCHANGED exception
         ELSE /\ exception' = "OSError"
              /\ pc' = "raised"
              /\ UNCHANGED <<out_dir, printed>>
    /\ UNCHANGED <<notRunVars, deck, slides_info, png_files, idx,
                   name_counts, output_names, files_created, files_overwritten>>

RECURSIVE SlideLines(_, _)
\* The line printed for each slide from position i on.
SlideLines(info, i) ==
    IF i > Len(info) THEN <<>>
    ELSE <<IF Truthy(info[i].title) THEN "slide_titre" ELSE "slide_sans_titre">>
         \o SlideLines(info, i + 1)

\* prs = Presentation(pptx_path), the announcements, and slides_info
LoadPresentation ==
    /\ pc = "load"
    /\ \E readable \in BOOLEAN :
         IF readable
         THEN LET info == [i \in 1..Len(deck) |->
                              extract_slide_title_and_bbox(deck[i], SlideSize[1], SlideSize[2])]
              IN  /\ slides_info' = info
                  /\ printed' = printed \o <<"slides_trouvees", "export_png">>
                                        \o SlideLines(info, 1)
                  /\ pc' = "detect"
         ELSE CaughtAtTop /\ UNCHANGED slides_info
    /\ UNCHANGED <<notRunVars, deck, exception, out_dir, png_files, idx,
                   name_counts, output_names, files_created, files_overwritten>>

\* has_libreoffice = shutil.which('soffice') or shutil.which('libreoffice')
DetectLibreOffice ==
    /\ pc = "detect"
    /\ \E has_libreoffice \in BOOLEAN :
         IF has_libreoffice
         THEN printed' = Append(printed, "libreoffice_detecte") /\ pc' = "convert_pdf"
         ELSE printed' = Append(printed, "libreoffice_non_detecte") /\ pc' = "returned"
    /\ UNCHANGED <<notRunVars, deck, slides_info, exception, out_dir, png_files, idx,
                   name_counts, output_names, files_created, files_overwritten>>

\* The PDF conversion: soffice, and libreoffice when soffice is not found.
\* A non-zero exit of soffice is reported and use_libreoffice_method
\* returns; a non-zero exit of the fallback is raised inside the except
\* clause and leaves use_libreoffice_method.
ConvertToPdf ==
    /\ pc = "convert_pdf"
    /\ \E soffice \in {"ok", "CalledProcessError", "FileNotFoundError"} :
         CASE soffice = "ok" ->
                /\ printed' = Append(printed, "conversion_pdf")
                /\ pc' = "check_pdf"
           [] soffice = "CalledProcessError" ->
                /\ printed' = printed \o <<"conversion_pdf", "erreur_conversion_pdf">>
                /\ pc' = "after_method"
           [] soffice = "FileNotFoundError" ->
                \E libreoffice \in {"ok", "CalledProcessError"} :
                    IF libreoffice = "ok"
                    THEN /\ printed' = Append(printed, "conversion_pdf")
                         /\ pc' = "check_pdf"
                    ELSE /\ printed' = printed \o
                               <<"conversion_pdf", "erreur", "traceback">>
                         /\ pc' = "returned"
    /\ UNCHANGED <<notRunVars, deck, slides_info, exception, out_dir, png_files, idx,
                   name_counts, output_names, files_created, files_overwritten>>

\* if not os.path.exists(pdf_file): print, return
CheckPdf ==
    /\ pc = "check_pdf"
    /\ \E pdf_exists \in BOOLEAN :
         IF pdf_exists
         THEN pc' = "rasterize" /\ UNCHANGED printed
         ELSE printed' = Append(printed, "pdf_non_cree") /\ pc' = "after_method"
    /\ UNCHANGED <<notRunVars, deck, slides_info, exception, out_dir, png_files, idx,
                   name_counts, output_names, files_created, files_overwritten>>

\* pdftoppm: not found is reported and use_libreoffice_method returns; a
\* non-zero exit (check=True) is not caught there.
Rasterize ==
    /\ pc = "rasterize"
    /\ \E pdftoppm \in {"ok", "CalledProcessError", "FileNotFoundError"} :
         CASE pdftoppm = "ok" ->
                /\ printed' = Append(printed, "conversion_png")
                /\ pc' = "list_png"
           [] pdftoppm = "FileNotFoundError" ->
                /\ printed' = printed \o <<"conversion_png", "pdftoppm_non_trouve">>
                /\ pc' = "after_method"
           [] pdftoppm = "CalledProcessError" ->
                /\ printed' = printed \o <<"conversion_png", "erreur", "traceback">>
                /\ pc' = "returned"
    /\ UNCHANGED <<notRunVars, deck, slides_info, exception, out_dir, png_files, idx,
                   name_counts, output_names, files_created, files_overwritten>>

\* png_files = sorted(...); if not png_files: print, return
ListPngFiles ==
    /\ pc = "list_png"
    /\ \E n \in 0..MaxSlides :
         /\ png_files' = n
         /\ IF n = 0
            THEN printed' = Append(printed, "aucune_image") /\ pc' = "after_method"
            ELSE printed' = Append(printed, "traitement") /\ pc' = "process"
    /\ UNCHANGED <<notRunVars, deck, slides_info, exception, out_dir, idx,
                   name_counts, output_names, files_created, files_overwritten>>

\* One turn of the loop over zip(png_files, slides_info): the output name,
\* the image steps, the save and the statistics.  A failure of an image step
\* is raised to pptx_to_png_transparent.
ProcessSlide ==
    /\ pc = "process"
    /\ idx < Min(png_files, Len(slides_info))
    /\ LET position == idx + 1
           named == assign_output_name(slides_info[position].title, position,
                                       name_counts)
           file_existed == named.name \in out_dir
       IN  /\ name_counts' = named.counts
           /\ \E image_ok \in BOOLEAN :
                IF image_ok
                THEN /\ output_names' = Append(output_names, named.name)
                     /\ out_dir' = out_dir \cup {named.name}
                     /\ files_overwritten' =
                            IF file_existed THEN files_overwritten + 1
                                            ELSE files_overwritten
                     /\ files_created' =
                            IF file_existed THEN files_created
                                            ELSE files_created + 1
                     /\ idx' = position
                     /\ printed' = Append(printed, "image_ecrite")
                     /\ pc' = "process"
                ELSE /\ CaughtAtTop
                     /\ UNCHANGED <<output_names, out_dir, files_overwritten,
                                    files_created, idx>>
    /\ UNCHANGED <<notRunVars, deck, slides_info, exception, png_files>>

\* After the loop: the statistics, and the return of use_libreoffice_method.
PrintStatistics ==
    /\ pc = "process"
    /\ idx = Min(png_files, Len(slides_info))
    /\ printed' = printed \o <<"statistiques">>
                     \o (IF files_created > 0 THEN <<"nouvelles_images">> ELSE <<>>)
                     \o (IF files_overwritten > 0 THEN <<"images_ecrasees">> ELSE <<>>)
                     \o <<"taille_totale", "taille_moyenne">>
    /\ pc' = "after_method"
    /\ UNCHANGED <<notRunVars, deck, slides_info, exception, out_dir, png_files, idx,
                   name_counts, output_names, files_created, files_overwritten>>

\* Back in pptx_to_png_transparent after use_libreoffice_method returned.
PrintExportTermine ==
    /\ pc = "after_method"
    /\ printed' = Append(printed, "export_termine")
    /\ pc' = "returned"
    /\ UNCHANGED <<notRunVars, deck, slides_info, exception, out_dir, png_files, idx,
                   name_counts, output_names, files_created, files_overwritten>>

NextRun ==
    \/ CheckInput
    \/ MakeOutputDir
    \/ LoadPresentation
    \/ DetectLibreOffice
    \/ ConvertToPdf
    \/ CheckPdf
    \/ Rasterize
    \/ ListPngFiles
    \/ ProcessSlide
    \/ PrintStatistics
    \/ PrintExportTermine

SpecRun == InitRun /\ [][NextRun]_vars

Said(msg) == \E i \in 1..Len(printed) : printed[i] = msg

\* ---- C1 ----

\* C1: whatever fails in a run of pptx_to_png_transparent (the input file,
\* the output directory, an external tool, the rasterization, an image step),
\* no exception leaves the function.
NoExceptionLeavesRun ==
    pc # "raised" /\ exception = "none"

\* ---- C9 ----

\* C9: the line 'Export termine' is printed only after use_libreoffice_method
\* completed its loop over the slides (and printed the statistics); never
\* after a run that reported a failed PDF conversion, a missing PDF, a
\* missing pdftoppm or an empty rasterization.
ExportTermineOnlyAfterLoop ==
    Said("export_termine") =>
        /\ Said("statistiques")
        /\ ~Said("erreur_conversion_pdf")
        /\ ~Said("pdf_non_cree")
        /\ ~Said("pdftoppm_non_trouve")
        /\ ~Said("aucune_image")

\* ---- C2 ----

\* The sanitized titles of the titled slides among the first n.
Occurrences(safe, n) ==
    {j \in 1..n : /\ Truthy(slides_info[j].title)
                  /\ sanitize_filename(slides_info[j].title.value) = safe}

\* The name the slide at position n is to get.
ExpectedName(n) ==
    LET title == slides_info[n].title
    IN  IF title.is_none \/ title.value = <<>>
        THEN SlidePrefix \o IntToStr(n) \o PngExt
        ELSE LET safe == sanitize_filename(title.value)
                 k == Cardinality(Occurrences(safe, n))
             IN  IF k = 1 THEN safe \o PngExt
                 ELSE safe \o <<"_">> \o IntToStr(k) \o PngExt

\* C2: the slide at position N is named Slide_<N>.png when it has no title
\* (None or ""), <sanitized title>.png at the first occurrence of its
\* sanitized title and <sanitized title>_<k>.png at the k-th.
OutputNamesAsSpecified ==
    \A n \in 1..Len(output_names) : output_names[n] = ExpectedName(n)

\* The deck with titles "A", "A", "" processed to the end.
NamedAAUntitled ==
    /\ Len(slides_info) = 3
    /\ slides_info[1].title = Some(<<"A">>)
    /\ slides_info[2].title = Some(<<"A">>)
    /\ slides_info[3].title = Some(<<>>)
    /\ output_names = << <<"A">> \o PngExt,
                         <<"A", "_", "2">> \o PngExt,
                         SlidePrefix \o <<"3">> \o PngExt >>
    /\ Said("statistiques")

\* ---- C10 ----

\* C10: two different slides of a run never get the same output name, and
\* every output name has a non-empty base name before '.png'.
OutputNamesDistinctAndNonEmpty ==
    /\ \A i, j \in 1..Len(output_names) :
           i # j => output_names[i] # output_names[j]
    /\ \A i \in 1..Len(output_names) : Len(output_names[i]) > Len(PngExt)

(***************************************************************************)
(* remove_title_from_image                                                 *)
(***************************************************************************)

\* int(x) of the quotient n / d, d > 0: truncation toward zero.  The
\* quotient is taken exactly; the floating-point rounding of the source is
\* not modelled.
TruncDiv(n, d) == IF n >= 0 THEN n \div d ELSE -((-n) \div d)

\* int(rel * size) for the fraction rel
ToPixels(rel, size) == TruncDiv(rel[1] * size, rel[2])

Max(a, b) == IF a >= b THEN a ELSE b

\* The rectangle (x, y, width, height) remove_title_from_image computes for
\* a bounding box that is not None.
title_rectangle(box, img_width, img_height, m) ==
    LET x0 == ToPixels(box[1], img_width) - m
        y0 == ToPixels(box[2], img_height) - m
        width0 == ToPixels(box[3], img_width) + 2 * m
        height0 == ToPixels(box[4], img_height) + 2 * m
        x == Max(0, x0)
        y == Max(0, y0)
    IN  [x |-> x, y |-> y,
         width  |-> Min(width0, img_width - x),
         height |-> Min(height0, img_height - y)]

\* The margin use_libreoffice_method erases titles with, and the default one.
TitleMargin == 15
DefaultTitleMargin == 10

\* How far outside the slide, in EMU, a shape may start.
EmuSlack == 2

ImageSizes == {<<40, 30>>, <<16, 12>>}
Margins == {0, DefaultTitleMargin, TitleMargin}

\* Slides with a title placeholder anywhere on or around the slide, and the
\* slide with no text.
TitleSlides ==
    {[has_title |-> TRUE, title |-> Shape(<<"A">>, l, t, w, h), shapes |-> <<>>] :
        l \in (0 - EmuSlack)..(SlideSize[1] + EmuSlack),
        t \in {0 - EmuSlack, 0, 1, SlideSize[2] + EmuSlack},
        w \in {0, 1, SlideSize[1]}, h \in {0, 1}}
    \cup {[has_title |-> FALSE, title |-> TitleShape(<<>>), shapes |-> <<>>]}

InitTitle ==
    /\ pc = "extract"
    /\ title_slide \in TitleSlides
    /\ img_size \in ImageSizes
    /\ title_margin \in Margins
    /\ title_bbox = <<>>
    /\ fill_rect = <<>>
    /\ SanIdle
    /\ RunIdle
    /\ CropIdle
    /\ ResizeIdle
    /\ FilterIdle
    /\ MainIdle

\* title, bbox = extract_slide_title_and_bbox(slide)
ExtractTitle ==
    /\ pc = "extract"
    /\ title_bbox' =
         extract_slide_title_and_bbox(title_slide, SlideSize[1], SlideSize[2]).bbox
    /\ pc' = "remove_title"
    /\ UNCHANGED <<sanVars, runVars, cropVars, resizeVars, filterVars, mainVars,
                   title_slide, img_size, title_margin, fill_rect>>

\* img = remove_title_from_image(img, bbox, margin)
RemoveTitle ==
    /\ pc = "remove_title"
    /\ IF title_bbox.is_none
       THEN UNCHANGED fill_rect
       ELSE fill_rect' = title_rectangle(title_bbox.value, img_size[1], img_size[2],
                                         title_margin)
    /\ pc' = "title_removed"
    /\ UNCHANGED <<sanVars, runVars, cropVars, resizeVars, filterVars, mainVars,
                   title_slide, title_bbox, img_size, title_margin>>

NextTitle == ExtractTitle \/ RemoveTitle

SpecTitle == InitTitle /\ [][NextTitle]_vars

\* ---- C3 ----

\* C3: for every image size, bounding box that is not None and margin, the
\* rectangle [x, y, x + width, y + height] that is filled lies within the
\* image.
FillRectangleWithinImage ==
    (pc = "title_removed" /\ ~title_bbox.is_none) =>
        /\ fill_rect.x >= 0
        /\ fill_rect.y >= 0
        /\ fill_rect.width >= 0
        /\ fill_rect.height >= 0
        /\ fill_rect.x + fill_rect.width <= img_size[1]
        /\ fill_rect.y + fill_rect.height <= img_size[2]

\* The same for the titles that start within the slide.
FillRectangleWithinImageOnSlide ==
    (/\ pc = "title_removed" /\ ~title_bbox.is_none
     /\ title_slide.title.left \in 0..SlideSize[1] /\ title_slide.title.top \in 0..SlideSize[2]) =>
        /\ fill_rect.x >= 0
        /\ fill_rect.y >= 0
        /\ fill_rect.width >= 0
        /\ fill_rect.height >= 0
        /\ fill_rect.x + fill_rect.width <= img_size[1]
        /\ fill_rect.y + fill_rect.height <= img_size[2]

(***************************************************************************)
(* autocrop_image                                                          *)
(***************************************************************************)

\* An RGBA image: its size and the pixels (x, y), 0-based, whose alpha is
\* not 0.
Pixels(w, h) == (0..(w - 1)) \X (0..(h - 1))

\* alpha.getbbox(): None when no pixel has non-zero alpha, else the box
\* (left, upper, right, lower) of those pixels, right and lower exclusive.
getbbox(img) ==
    IF img.opaque = {} THEN NoneValue
    ELSE LET xs == {p[1] : p \in img.opaque}
             ys == {p[2] : p \in img.opaque}
         IN  Some(<<CHOOSE x \in xs : \A o \in xs : x <= o,
                    CHOOSE y \in ys : \A o \in ys : y <= o,
                    (CHOOSE x \in xs : \A o \in xs : x >= o) + 1,
                    (CHOOSE y \in ys : \A o \in ys : y >= o) + 1>>)

\* img.crop(box): the region of the box, of the box's size; what lies outside
\* the image is transparent.
crop(img, box) ==
    [box    |-> box,
     width  |-> box[3] - box[1],
     height |-> box[4] - box[2],
     opaque |-> {<<p[1] - box[1], p[2] - box[2]>> :
                    p \in {q \in img.opaque : /\ box[1] <= q[1] /\ q[1] < box[3]
                                              /\ box[2] <= q[2] /\ q[2] < box[4]}}]

\* Side of the crop returned for a fully transparent image.
FallbackCropSize == 100

\* The autocrop whose margin is not clamped to the image.
autocrop_image_unclamped(img, m) ==
    LET found == getbbox(img)
    IN  IF found.is_none
        THEN crop(img, <<0, 0, FallbackCropSize, FallbackCropSize>>)
        ELSE crop(img, <<Max(0, found.value[1] - m), Max(0, found.value[2] - m),
                         found.value[3] + m, found.value[4] + m>>)

autocrop_image(img, m) ==
    LET found == getbbox(img)
    IN  IF found.is_none
        THEN crop(img, <<0, 0, FallbackCropSize, FallbackCropSize>>)
        ELSE crop(img, <<Max(0, found.value[1] - m),
                         Max(0, found.value[2] - m),
                         Min(img.width, found.value[3] + m),
                         Min(img.height, found.value[4] + m)>>)

\* Largest width and height of an image to crop, most pixels of non-zero
\* alpha in it, and largest crop margin.
MaxDim == 3
MaxOpaque == 3
MaxCropMargin == 2

CropImages ==
    UNION {{[width |-> w, height |-> h, opaque |-> o] :
               o \in {q \in SUBSET Pixels(w, h) : Cardinality(q) <= MaxOpaque}} :
           w \in 1..MaxDim, h \in 1..MaxDim}

InitCrop ==
    /\ pc = "autocrop"
    /\ crop_img \in CropImages
    /\ crop_margin \in 0..MaxCropMargin
    /\ cropped = <<>>
    /\ SanIdle
    /\ RunIdle
    /\ TitleIdle
    /\ ResizeIdle
    /\ FilterIdle
    /\ MainIdle

\* img = autocrop_image(img, margin=crop_margin)
Autocrop ==
    /\ pc = "autocrop"
    /\ cropped' = autocrop_image(crop_img, crop_margin)
    /\ pc' = "autocropped"
    /\ UNCHANGED <<sanVars, runVars, titleVars, resizeVars, filterVars, mainVars,
                   crop_img, crop_margin>>

NextCrop == Autocrop

SpecCrop == InitCrop /\ [][NextCrop]_vars

\* ---- C4 ----

\* The rectangles (left, upper, right, lower) within an image of size w x h.
Rectangles(w, h) ==
    {r \in (0..w) \X (0..h) \X (0..w) \X (0..h) : r[1] < r[3] /\ r[2] < r[4]}

InRect(p, r) == r[1] <= p[1] /\ p[1] < r[3] /\ r[2] <= p[2] /\ p[2] < r[4]

\* The minimal rectangle containing every pixel of non-zero alpha: it holds
\* them all and each of its four sides touches one.
MinimalRect(img) ==
    CHOOSE r \in Rectangles(img.width, img.height) :
        /\ \A p \in img.opaque : InRect(p, r)
        /\ \E p \in img.opaque : p[1] = r[1]
        /\ \E p \in img.opaque : p[1] = r[3] - 1
        /\ \E p \in img.opaque : p[2] = r[2]
        /\ \E p \in img.opaque : p[2] = r[4] - 1

\* C4: with a pixel of non-zero alpha, autocrop_image returns the crop to the
\* minimal rectangle of those pixels, expanded by the margin on the four
\* sides and clamped to the image; with none, the 100 x 100 crop from (0, 0).
AutocropMinimalOrFallback ==
    pc = "autocropped" =>
        IF crop_img.opaque # {}
        THEN LET r == MinimalRect(crop_img)
                 m == crop_margin
                 kept == {p \in Pixels(crop_img.width, crop_img.height) :
                             InRect(p, <<r[1] - m, r[2] - m, r[3] + m, r[4] + m>>)}
             IN  /\ cropped.box \in Rectangles(crop_img.width, crop_img.height)
                 /\ {p \in Pixels(crop_img.width, crop_img.height) :
                        InRect(p, cropped.box)} = kept
                 /\ cropped.width = cropped.box[3] - cropped.box[1]
                 /\ cropped.height = cropped.box[4] - cropped.box[2]
                 /\ Cardinality(cropped.opaque) = Cardinality(crop_img.opaque)
        ELSE /\ cropped.box = <<0, 0, 100, 100>>
             /\ cropped.width = 100 /\ cropped.height = 100
             /\ cropped.opaque = {}

\* A crop whose margin is cut by the image's edge on one side and not on the
\* opposite one.
AutocropClampsMargin ==
    /\ pc = "autocropped"
    /\ crop_img.opaque # {}
    /\ crop_margin > 0
    /\ cropped.box[1] = 0
    /\ MinimalRect(crop_img)[1] - crop_margin < 0
    /\ cropped.box[3] = MinimalRect(crop_img)[3] + crop_margin
    /\ cropped.box[4] = crop_img.height
    /\ MinimalRect(crop_img)[4] + crop_margin > crop_img.height

(***************************************************************************)
(* resize_image                                                            *)
(***************************************************************************)

\* The resize that divides the percentage by 100 before it multiplies.
resize_image_divides_first(size, scale) ==
    IF scale >= 100 THEN size
    ELSE <<size[1] * TruncDiv(scale, 100), size[2] * TruncDiv(scale, 100)>>

\* The size of the image resize_image returns: the image itself when
\* scale_percent >= 100, else img.resize((width, height)) with
\* width = int(img.width * scale_percent / 100), and height alike.
resize_image(size, scale) ==
    IF scale >= 100 THEN size
    ELSE <<TruncDiv(size[1] * scale, 100), TruncDiv(size[2] * scale, 100)>>

\* Largest width and height of an image to resize; how far below 0 and how
\* far above 100 the scale goes.
MaxSide == 4
NegScale == 3
OverScale == 2

InitResize ==
    /\ pc = "resize"
    /\ resize_size \in (1..MaxSide) \X (1..MaxSide)
    /\ scale_percent \in (0 - NegScale)..(100 + OverScale)
    /\ resized = <<>>
    /\ SanIdle
    /\ RunIdle
    /\ TitleIdle
    /\ CropIdle
    /\ FilterIdle
    /\ MainIdle

\* img = resize_image(img, scale_percent)
Resize ==
    /\ pc = "resize"
    /\ resized' = resize_image(resize_size, scale_percent)
    /\ pc' = "resized"
    /\ UNCHANGED <<sanVars, runVars, titleVars, cropVars, filterVars, mainVars,
                   resize_size, scale_percent>>

NextResize == Resize

SpecResize == InitResize /\ [][NextResize]_vars

\* ---- C5 ----

\* q is the floor of n / 100.
IsFloorOfHundredth(q, n) == 100 * q <= n /\ n < 100 * (q + 1)

\* q is n / 100 rounded toward zero.
IsTruncOfHundredth(q, n) ==
    IF n >= 0 THEN IsFloorOfHundredth(q, n)
    ELSE 100 * (q - 1) < n /\ n <= 100 * q

\* C5 as stated: for every integer scale, the image is returned with its own
\* size when scale >= 100, with size (floor(w * scale / 100),
\* floor(h * scale / 100)) when scale < 100, and never larger than the input.
ResizeFloorsForEveryScale ==
    pc = "resized" =>
        /\ scale_percent >= 100 => resized = resize_size
        /\ scale_percent < 100 =>
               /\ IsFloorOfHundredth(resized[1], resize_size[1] * scale_percent)
               /\ IsFloorOfHundredth(resized[2], resize_size[2] * scale_percent)
        /\ resized[1] <= resize_size[1]
        /\ resized[2] <= resize_size[2]

\* C5 amended: the same with the floor for 0 <= scale < 100 only; for a
\* negative scale the size is w * scale / 100 and h * scale / 100 rounded
\* toward zero.
ResizeFloorsForNonNegativeScale ==
    pc = "resized" =>
        /\ scale_percent >= 100 => resized = resize_size
        /\ (0 <= scale_percent /\ scale_percent < 100) =>
               /\ IsFloorOfHundredth(resized[1], resize_size[1] * scale_percent)
               /\ IsFloorOfHundredth(resized[2], resize_size[2] * scale_percent)
        /\ scale_percent < 0 =>
               /\ IsTruncOfHundredth(resized[1], resize_size[1] * scale_percent)
               /\ IsTruncOfHundredth(resized[2], resize_size[2] * scale_percent)
        /\ resized[1] <= resize_size[1]
        /\ resized[2] <= resize_size[2]

\* A reduction whose exact size is not whole in either direction.
ResizedWithRemainder ==
    /\ pc = "resized"
    /\ scale_percent > 0 /\ scale_percent < 100
    /\ (resize_size[1] * scale_percent) % 100 # 0
    /\ (resize_size[2] * scale_percent) % 100 # 0
    /\ resized[1] > 0
    /\ resized[2] > resized[1]

(***************************************************************************)
(* The white background made transparent (use_libreoffice_method)          *)
(***************************************************************************)

\* A channel value above which a pixel counts as white.
WhiteThreshold == 250

\* img.convert('RGBA') of an RGB image: every pixel opaque
convert_RGBA(mode, pixels) ==
    IF mode # "RGBA"
    THEN [i \in 1..Len(pixels) |-> <<pixels[i][1], pixels[i][2], pixels[i][3], 255>>]
    ELSE pixels

\* The filter that takes a pixel for white as soon as one channel is.
white_to_transparent_any_channel(pixels) ==
    [i \in 1..Len(pixels) |->
        IF \/ pixels[i][1] > WhiteThreshold
           \/ pixels[i][2] > WhiteThreshold
           \/ pixels[i][3] > WhiteThreshold
        THEN <<255, 255, 255, 0>>
        ELSE pixels[i]]

\* new_data: (255, 255, 255, 0) for the white pixels, the others as they are
white_to_transparent(pixels) ==
    [i \in 1..Len(pixels) |->
        IF /\ pixels[i][1] > WhiteThreshold
           /\ pixels[i][2] > WhiteThreshold
           /\ pixels[i][3] > WhiteThreshold
        THEN <<255, 255, 255, 0>>
        ELSE pixels[i]]

\* Most pixels of an image to filter.
MaxPixels == 2

ChannelValues == {0, 250, 251}
AlphaValues == {0, 255}

RECURSIVE SeqsOfLen(_, _)
SeqsOfLen(S, n) ==
    IF n = 0 THEN {<<>>}
    ELSE {Append(q, e) : q \in SeqsOfLen(S, n - 1), e \in S}

InitFilter ==
    /\ pc = "filter"
    /\ img_mode \in {"RGB", "RGBA"}
    /\ \E n \in 1..MaxPixels :
         img_data \in SeqsOfLen(
             IF img_mode = "RGBA"
             THEN ChannelValues \X ChannelValues \X ChannelValues \X AlphaValues
             ELSE ChannelValues \X ChannelValues \X ChannelValues, n)
    /\ data = <<>>
    /\ new_data = <<>>
    /\ SanIdle
    /\ RunIdle
    /\ TitleIdle
    /\ CropIdle
    /\ ResizeIdle
    /\ MainIdle

\* The conversion to RGBA, img.getdata(), and the loop that builds new_data
MakeBackgroundTransparent ==
    /\ pc = "filter"
    /\ data' = convert_RGBA(img_mode, img_data)
    /\ new_data' = white_to_transparent(data')
    /\ pc' = "filtered"
    /\ UNCHANGED <<sanVars, runVars, titleVars, cropVars, resizeVars, mainVars,
                   img_mode, img_data>>

NextFilter == MakeBackgroundTransparent

SpecFilter == InitFilter /\ [][NextFilter]_vars

\* ---- C7 ----

\* C7: every pixel whose red, green and blue are all above 250 gets alpha 0
\* and colour (255, 255, 255); every other pixel keeps its four values.
WhitePixelsTransparentOthersKept ==
    pc = "filtered" =>
        /\ Len(new_data) = Len(data)
        /\ \A i \in 1..Len(data) :
               IF \A c \in 1..3 : data[i][c] >= 251
               THEN new_data[i] = <<255, 255, 255, 0>>
               ELSE new_data[i] = data[i]

\* An image with an opaque white pixel made transparent and a pixel with one
\* channel at 250 kept opaque.
FilteredWhiteAndNearWhite ==
    /\ pc = "filtered"
    /\ \E i \in 1..Len(data) :
           /\ data[i][4] = 255
           /\ new_data[i] = <<255, 255, 255, 0>>
    /\ \E i \in 1..Len(data) :
           /\ data[i][1] = 250 /\ data[i][2] = 251 /\ data[i][3] = 251
           /\ new_data[i][4] = 255

(***************************************************************************)
(* __main__: the command line                                              *)
(***************************************************************************)

\* arg.startswith(prefix)
StartsWith(arg, prefix) ==
    Len(arg) >= Len(prefix) /\ SubSeq(arg, 1, Len(prefix)) = prefix

\* arg.split('=')[1]: what stands between the first '=' and the next one
AfterEquals(arg) ==
    LET eqs == {i \in 1..Len(arg) : arg[i] = "="}
        first == Nth(eqs, 1)
        later == {i \in eqs : i > first}
    IN  SubSeq(arg, first + 1, IF later = {} THEN Len(arg) ELSE Nth(later, 1) - 1)

DigitValue(c) == CHOOSE d \in 0..9 : Digits[d + 1] = c

IsDigitChar(c) == \E d \in 1..10 : Digits[d] = c

\* arg.isdigit()
IsDigit(arg) == arg # <<>> /\ \A i \in 1..Len(arg) : IsDigitChar(arg[i])

RECURSIVE DigitsValue(_)
DigitsValue(ds) ==
    IF ds = <<>> THEN 0
    ELSE 10 * DigitsValue(SubSeq(ds, 1, Len(ds) - 1)) + DigitValue(ds[Len(ds)])

\* int(s): the number of a decimal numeral with an optional sign, else a
\* ValueError
ParseInt(s) ==
    LET signed == s # <<>> /\ s[1] \in {"-", "+"}
        ds == IF signed THEN Tail(s) ELSE s
    IN  IF IsDigit(ds)
        THEN [ok |-> TRUE,
              value |-> IF signed /\ s[1] = "-" THEN 0 - DigitsValue(ds)
                        ELSE DigitsValue(ds)]
        ELSE [ok |-> FALSE, value |-> 0]

KeepTitle == <<"-", "-", "k", "e", "e", "p", "-", "t", "i", "t", "l", "e">>
NoCrop == <<"-", "-", "n", "o", "-", "c", "r", "o", "p">>
CropMarginPrefix == <<"-", "-", "c", "r", "o", "p", "-", "m", "a", "r", "g", "i", "n", "=">>
ScalePrefix == <<"-", "-", "s", "c", "a", "l", "e", "=">>
Images == <<"i", "m", "a", "g", "e", "s">>

\* The defaults of __main__.
DefaultDpi == 300
DefaultCropMargin == 20
DefaultScale == 100

RECURSIVE parse_options(_, _, _)
\* for arg in sys.argv[3:]: the settings after the arguments from index i
\* (1-based) on, or the ValueError of an int() on the way.
parse_options(argv, i, opts) ==
    IF i > Len(argv) THEN opts
    ELSE LET arg == argv[i]
         IN  IF arg = KeepTitle
             THEN parse_options(argv, i + 1, [opts EXCEPT !.keep_title = TRUE])
             ELSE IF arg = NoCrop
             THEN parse_options(argv, i + 1, [opts EXCEPT !.do_autocrop = FALSE])
             ELSE IF StartsWith(arg, CropMarginPrefix)
             THEN LET n == ParseInt(AfterEquals(arg))
                  IN  IF n.ok
                      THEN parse_options(argv, i + 1, [opts EXCEPT !.margin = n.value])
                      ELSE [opts EXCEPT !.error = "ValueError"]
             ELSE IF StartsWith(arg, ScalePrefix)
             THEN LET n == ParseInt(AfterEquals(arg))
                  IN  IF n.ok
                      THEN parse_options(argv, i + 1, [opts EXCEPT !.scale = n.value])
                      ELSE [opts EXCEPT !.error = "ValueError"]
             ELSE IF IsDigit(arg)
             THEN parse_options(argv, i + 1,
                                [opts EXCEPT !.resolution = ParseInt(arg).value])
             ELSE parse_options(argv, i + 1, opts)

\* The settings of __main__ for sys.argv (the script's name first) of at
\* least two entries.  sys.argv[3:] starts at the fourth entry.
main_settings(argv) ==
    parse_options(argv, 4,
        [pptx_file     |-> argv[2],
         output_folder |-> IF Len(argv) > 2 THEN argv[3] ELSE Images,
         resolution    |-> DefaultDpi,
         keep_title    |-> FALSE,
         do_autocrop   |-> TRUE,
         margin        |-> DefaultCropMargin,
         scale         |-> DefaultScale,
         error         |-> "none"])

\* Most arguments after the script's name.
MaxArgs == 3

ScriptName == <<"e", "x", "t", "r", "a", "c", "t", "_", "s", "l", "i", "d", "e", "s", ".", "p", "y">>
SourcePath == <<"d", ".", "p", "p", "t", "x">>
OutArg == <<"o", "u", "t">>
DpiArg == <<"1", "5", "0">>
CropMarginArg == CropMarginPrefix \o <<"5">>
ScaleArg == ScalePrefix \o <<"5", "0">>
BadScaleArg == ScalePrefix \o <<"x">>

MainArgs == {OutArg, DpiArg, KeepTitle, NoCrop, CropMarginArg, ScaleArg,
             BadScaleArg}

\* No argument, or the source path and up to MaxArgs arguments after it.
CommandLines ==
    {<<ScriptName>>}
    \cup {<<ScriptName, SourcePath>> \o args : args \in SeqsUpTo(MainArgs, MaxArgs)}

InitMain ==
    /\ pc = "main"
    /\ sys_argv \in CommandLines
    /\ call = <<>>
    /\ SanIdle
    /\ RunIdle
    /\ TitleIdle
    /\ CropIdle
    /\ ResizeIdle
    /\ FilterIdle

\* The __main__ block, up to the call of pptx_to_png_transparent.
Main ==
    /\ pc = "main"
    /\ IF Len(sys_argv) < 2
       THEN pc' = "usage_exit_1" /\ UNCHANGED call
       ELSE LET s == main_settings(sys_argv)
            IN  IF s.error # "none"
                THEN pc' = "value_error" /\ UNCHANGED call
                ELSE /\ call' = [pptx_path     |-> s.pptx_file,
                                 output_dir    |-> s.output_folder,
                                 dpi           |-> s.resolution,
                                 remove_title  |-> ~s.keep_title,
                                 autocrop      |-> s.do_autocrop,
                                 crop_margin   |-> s.margin,
                                 scale_percent |-> s.scale]
                     /\ pc' = "called"
    /\ UNCHANGED <<sanVars, runVars, titleVars, cropVars, resizeVars, filterVars,
                   sys_argv>>

NextMain == Main

SpecMain == InitMain /\ [][NextMain]_vars

\* ---- C8 ----

\* The arguments after the source path.
AfterSource == SubSeq(sys_argv, 3, Len(sys_argv))

Given(arg) == \E i \in 1..Len(AfterSource) : AfterSource[i] = arg

\* Given from the second argument after the source path on.
GivenLater(arg) == \E i \in 2..Len(AfterSource) : AfterSource[i] = arg

\* C8: an option (--keep-title, --no-crop, --crop-margin=N, --scale=N) takes
\* effect wherever it stands after the source path, a setting that is not
\* given keeps its default, and no option is taken for the output directory.
\* The bare integer of the DPI is read here in the way most favourable to the
\* claim: where the usage line puts it, after the output directory.
OptionsTakeEffectAnywhere ==
    pc = "called" =>
        /\ call.remove_title = ~Given(KeepTitle)
        /\ call.autocrop = ~Given(NoCrop)
        /\ call.crop_margin = IF Given(CropMarginArg) THEN 5 ELSE 20
        /\ call.scale_percent = IF Given(ScaleArg) THEN 50 ELSE 100
        /\ call.dpi = IF GivenLater(DpiArg) THEN 150 ELSE 300
        /\ call.output_dir \notin {KeepTitle, NoCrop, CropMarginArg, ScaleArg}
        /\ Len(AfterSource) = 0 => call.output_dir = Images

\* The same for the options from the third argument on (sys.argv[3:]), which
\* is where the loop of __main__ reads them.
OptionsTakeEffectAfterOutputDir ==
    pc = "called" =>
        /\ call.remove_title = ~GivenLater(KeepTitle)
        /\ call.autocrop = ~GivenLater(NoCrop)
        /\ call.crop_margin = IF GivenLater(CropMarginArg) THEN 5 ELSE 20
        /\ call.scale_percent = IF GivenLater(ScaleArg) THEN 50 ELSE 100
        /\ call.dpi = IF GivenLater(DpiArg) THEN 150 ELSE 300
        /\ call.output_dir = IF Len(AfterSource) = 0 THEN Images ELSE AfterSource[1]

====
